---- MODULE Spec2Model ----
(***************************************************************************)
(* LobbyProtocol (src/network/protocols/lobby_protocol.hpp): the base      *)
(* class of the client and the server lobby.  The model covers the         *)
(* singleton registry (m_lobby, create, get), the vote ledger              *)
(* (m_peers_votes, addVote, getVote, getNumberOfVotes), the voting timer   *)
(* (m_end_voting_period, m_max_voting_time), the start-game thread         *)
(* (m_start_game_thread, joinStartGameThread) and the lobby events.        *)
(*                                                                         *)
(* Member functions that the header only declares (addVote,                *)
(* startVotingPeriod, getRemainingVotingTime, isVotingOver, loadWorld, the *)
(* constructor and the destructor, the event handlers of the derived       *)
(* lobbies) are modelled from their documented behaviour.                  *)
(*                                                                         *)
(* Times: the clock and the two timer fields are uint64_t milliseconds.    *)
(* A float number of seconds is represented by an integer count of         *)
(* 1/FloatPerMs milliseconds, so that a float can hold a fraction of a     *)
(* millisecond and the float -> uint64_t conversion truncates.             *)
(***************************************************************************)
EXTENDS Integers, FiniteSets, Sequences, TLC

\* ------------------------------------------------------------------ bounds
MaxObjects == 2      \* coordinators constructed over one run
MaxRefs == 2         \* strong references (shared_ptr) to one coordinator
MaxTracks == 2       \* distinct votes a peer can send
MaxTime == 4         \* last value of the monotonic clock, in ms
FloatPerMs == 2      \* float values per millisecond
MaxVotingFloat == 5  \* largest max_time passed to startVotingPeriod (float units)
MaxKarts == 2        \* karts a player can select

\* --------------------------------------------------------------- constants
LE_CONNECTION_REFUSED == 2
LE_KART_SELECTION == 7

RR_BUSY == 0
RR_BANNED == 1
RR_INCORRECT_PASSWORD == 2
RR_INCOMPATIBLE_DATA == 3
RR_TOO_MANY_PLAYERS == 4
RR_INVALID_PLAYER == 5

\* Any value of the underlying type, uint8_t.
RejectReason_uint8 == 0..255

RejectReason == {RR_BUSY, RR_BANNED, RR_INCORRECT_PASSWORD, RR_INCOMPATIBLE_DATA,
                 RR_TOO_MANY_PLAYERS, RR_INVALID_PLAYER}

NULL == 0
Objects == 1..MaxObjects
Types == {"ClientLobby", "ServerLobby"}
\* Host ids are not consecutive (lobby_protocol.hpp:133-135).
HostIds == {1, 2, 5}
QueryIds == HostIds \cup {3}

TrackNames == <<"", "abyss", "cocoa_temple", "hacienda">>

PeerVote0 == [m_player_name |-> "", m_track_name |-> "",
              m_num_laps |-> 1, m_reverse |-> FALSE]
PeerVote4(name, track, laps, reverse) ==
    [m_player_name |-> name, m_track_name |-> track,
     m_num_laps |-> laps % 256, m_reverse |-> reverse]
\* The votes peers send: the default-constructed vote is one of them.
Votes == {PeerVote0} \cup
         {PeerVote4("tux", TrackNames[i], i + 1, i % 2 = 0) : i \in 2..MaxTracks}

VARIABLES
    m_lobby,              \* static weak_ptr: NULL or the object it refers to
    status,               \* object -> "unborn" | "alive" | "destroying" | "dead"
    type,                 \* object -> dynamic type
    use_count,            \* object -> number of shared_ptr owners
    aborted,              \* assert() failed: the process was aborted
    getting,              \* <<>> or the get<T>() call between lock() and its return
    m_peers_votes,        \* object -> [host id -> PeerVote]
    voted,                \* object -> [host id -> vote of its last addVote] (history)
    writing,              \* object -> <<>> or the addVote the message context is in
    reading,              \* object -> <<>> or the getVote the tick context is in
    now,                  \* StkTime::getMonoTimeMs()
    m_end_voting_period,  \* object -> uint64_t ms
    m_max_voting_time,    \* object -> uint64_t ms
    armed,                \* object -> <<>> or <<clock, max_time>> of the last startVotingPeriod (history)
    arming,               \* object -> <<>> or the startVotingPeriod call between its two stores
    m_start_game_thread,  \* object -> "none" | "running" | "done"
    running,              \* object -> background units of it still executing
    pc,                   \* object -> position of the caller of loadWorld
    phase,                \* object -> session phase
    m_kart,               \* object -> recorded kart selection
    reported,             \* object -> event codes reported as protocol violations
    op                    \* the last call: [name, obj, arg, ret]

registry == <<m_lobby, status, type, use_count, aborted, getting>>
ledger   == <<m_peers_votes, voted, writing, reading>>
timer    == <<m_end_voting_period, m_max_voting_time, armed, arming>>
loader   == <<m_start_game_thread, running, pc>>
events   == <<phase, m_kart, reported>>
vars == <<m_lobby, status, type, use_count, aborted, getting, m_peers_votes, voted,
          writing, reading, now,
          m_end_voting_period, m_max_voting_time, armed, arming, m_start_game_thread,
          running, pc, phase, m_kart, reported, op>>

Call(name, obj, arg, ret) == [name |-> name, obj |-> obj, arg |-> arg, ret |-> ret]

EmptyMap == [i \in {} |-> PeerVote0]

Init ==
    /\ m_lobby = NULL
    /\ status = [o \in Objects |-> "unborn"]
    /\ type = [o \in Objects |-> "none"]
    /\ use_count = [o \in Objects |-> 0]
    /\ aborted = FALSE
    /\ getting = <<>>
    /\ m_peers_votes = [o \in Objects |-> EmptyMap]
    /\ voted = [o \in Objects |-> EmptyMap]
    /\ writing = [o \in Objects |-> <<>>]
    /\ reading = [o \in Objects |-> <<>>]
    /\ now = 1
    /\ m_end_voting_period = [o \in Objects |-> 0]
    /\ m_max_voting_time = [o \in Objects |-> 0]
    /\ armed = [o \in Objects |-> <<>>]
    /\ arming = [o \in Objects |-> <<>>]
    /\ m_start_game_thread = [o \in Objects |-> "none"]
    /\ running = [o \in Objects |-> 0]
    /\ pc = [o \in Objects |-> "idle"]
    /\ phase = [o \in Objects |-> "Idle"]
    /\ m_kart = [o \in Objects |-> 0]
    /\ reported = [o \in Objects |-> {}]
    /\ op = Call("start", NULL, NULL, NULL)

\* ---------------------------------------------------------------- registry
Alive(o) == status[o] = "alive"

\* A null check in place of expired(): true only before the first create.
expired_null == m_lobby = NULL

\* std::weak_ptr::expired(): no object, or no owner left.
expired == m_lobby = NULL \/ use_count[m_lobby] = 0

\* The stored pointer whether or not an owner is left.
lock_unchecked == m_lobby

\* std::weak_ptr::lock()
lock == IF expired THEN NULL ELSE m_lobby

\* ClientLobby and ServerLobby both derive from LobbyProtocol, not from each other.
dynamic_pointer_cast(T, lp) == IF lp # NULL /\ type[lp] = T THEN lp ELSE NULL

\* The object std::make_shared constructs next.
NewObject == CHOOSE o \in Objects : status[o] = "unborn" /\
                 \A p \in Objects : status[p] = "unborn" => o <= p

create_unchecked(T) ==
    /\ ~aborted
    /\ \E o \in Objects : status[o] = "unborn"
    /\ LET ret == NewObject IN
        /\ status' = [status EXCEPT ![ret] = "alive"]
        /\ type' = [type EXCEPT ![ret] = T]
        /\ use_count' = [use_count EXCEPT ![ret] = 1]
        /\ m_lobby' = ret
        /\ op' = Call("create", ret, T, ret)
    /\ aborted' = aborted
    /\ UNCHANGED <<getting, ledger, now, timer, loader, events>>

create(T) ==
    /\ ~aborted
    /\ \E o \in Objects : status[o] = "unborn"
    /\ IF expired
       THEN LET ret == NewObject IN
            /\ status' = [status EXCEPT ![ret] = "alive"]
            /\ type' = [type EXCEPT ![ret] = T]
            /\ use_count' = [use_count EXCEPT ![ret] = 1]
            /\ m_lobby' = ret
            /\ aborted' = FALSE
            /\ op' = Call("create", ret, T, ret)
       ELSE /\ aborted' = TRUE
            /\ op' = Call("create", NULL, T, NULL)
            /\ UNCHANGED <<m_lobby, status, type, use_count>>
    /\ UNCHANGED <<getting, ledger, now, timer, loader, events>>

\* static_pointer_cast in place of dynamic_pointer_cast: any live lobby is returned.
get_value_nocast(T) == lock

\* The value get<T>() returns.
get_value(T) ==
    LET lp == lock IN
    IF lp # NULL
    THEN LET new_type == dynamic_pointer_cast(T, lp) IN
         IF new_type # NULL THEN new_type ELSE NULL
    ELSE NULL

\* The caller keeps the shared_ptr returned: one more owner until it is released.
get(T) ==
    /\ ~aborted
    /\ LET new_type == get_value(T) IN
        /\ IF new_type # NULL THEN use_count[new_type] < MaxRefs ELSE TRUE
        /\ use_count' = IF new_type # NULL
                        THEN [use_count EXCEPT ![new_type] = @ + 1] ELSE use_count
        /\ op' = Call("get", new_type, T, new_type)
    /\ UNCHANGED <<m_lobby, status, type, aborted, getting, ledger, now, timer, loader,
                   events>>

\* ------------------------------------------------------------------ ledger
\* An addVote that also restarts the voting window.
addVote_rearm(o, host_id, vote) ==
    /\ ~aborted
    /\ Alive(o)
    /\ m_peers_votes' = [m_peers_votes EXCEPT ![o] =
           [i \in DOMAIN @ \cup {host_id} |-> IF i = host_id THEN vote ELSE @[i]]]
    /\ voted' = [voted EXCEPT ![o] = (host_id :> vote) @@ @]
    /\ UNCHANGED <<writing, reading>>
    /\ m_end_voting_period' =
           [m_end_voting_period EXCEPT ![o] = now + m_max_voting_time[o]]
    /\ op' = Call("addVote", o, [host_id |-> host_id, vote |-> vote],
                  IF host_id \in DOMAIN m_peers_votes[o] THEN "overwrite" ELSE "insert")
    /\ UNCHANGED <<registry, now, m_max_voting_time, armed, arming, loader, events>>

addVote(o, host_id, vote) ==
    /\ ~aborted
    /\ Alive(o)
    /\ m_peers_votes' = [m_peers_votes EXCEPT ![o] =
           [i \in DOMAIN @ \cup {host_id} |-> IF i = host_id THEN vote ELSE @[i]]]
    /\ voted' = [voted EXCEPT ![o] = (host_id :> vote) @@ @]
    /\ UNCHANGED <<writing, reading>>
    /\ op' = Call("addVote", o, [host_id |-> host_id, vote |-> vote],
                  IF host_id \in DOMAIN m_peers_votes[o] THEN "overwrite" ELSE "insert")
    /\ UNCHANGED <<registry, now, timer, loader, events>>

\* lower_bound() in place of find(): the first entry whose key is >= host_id.
getVote_lower_bound(o, host_id) ==
    LET ge == {k \in DOMAIN m_peers_votes[o] : k >= host_id} IN
    IF ge = {} THEN <<>>
    ELSE <<m_peers_votes[o][CHOOSE k \in ge : \A j \in ge : k <= j]>>

\* The value getVote returns: <<>> for NULL, <<v>> for a pointer to the stored
\* vote v.
getVote_value(o, host_id) ==
    IF host_id \notin DOMAIN m_peers_votes[o]
    THEN <<>> ELSE <<m_peers_votes[o][host_id]>>

\* m_peers_votes[host_id] in place of find(): inserts a default vote.
getVote_subscript(o, host_id) ==
    /\ ~aborted
    /\ Alive(o)
    /\ m_peers_votes' = [m_peers_votes EXCEPT ![o] =
           [i \in DOMAIN @ \cup {host_id} |-> IF i \in DOMAIN @ THEN @[i] ELSE PeerVote0]]
    /\ op' = Call("getVote", o, host_id, <<m_peers_votes'[o][host_id]>>)
    /\ UNCHANGED <<registry, voted, writing, reading, now, timer, loader, events>>

getVote(o, host_id) ==
    /\ ~aborted
    /\ Alive(o)
    /\ op' = Call("getVote", o, host_id, getVote_value(o, host_id))
    /\ UNCHANGED <<registry, ledger, now, timer, loader, events>>

getNumberOfVotes_maxkey(o) ==
    IF DOMAIN m_peers_votes[o] = {} THEN 0
    ELSE CHOOSE k \in DOMAIN m_peers_votes[o] : \A j \in DOMAIN m_peers_votes[o] : j <= k

getNumberOfVotes(o) == Cardinality(DOMAIN m_peers_votes[o])

\* The ledger as the two contexts of a coordinator use it: the message context
\* runs addVote, the tick context getVote and getNumberOfVotes and then reads
\* through the pointer getVote returned.  The coordinator runs one handler at
\* a time.
CanEnter_unserialized(other) == TRUE

CanEnter(other) == other = <<>>

\* The members of PeerVote in the order its copy assignment copies them.
Fields == <<"m_player_name", "m_track_name", "m_num_laps", "m_reverse">>

\* m_peers_votes[host_id]: the entry, default-constructed when there was none.
addVote_begin(o, host_id, vote) ==
    /\ ~aborted
    /\ Alive(o)
    /\ writing[o] = <<>>
    /\ CanEnter(reading[o])
    /\ m_peers_votes' = [m_peers_votes EXCEPT ![o] =
           [i \in DOMAIN @ \cup {host_id} |-> IF i \in DOMAIN @ THEN @[i] ELSE PeerVote0]]
    /\ writing' = [writing EXCEPT ![o] =
           [host_id |-> host_id, vote |-> vote, at |-> 0,
            ret |-> IF host_id \in DOMAIN m_peers_votes[o] THEN "overwrite" ELSE "insert"]]
    /\ op' = Call("operator[]", o, host_id, NULL)
    /\ UNCHANGED <<registry, voted, reading, now, timer, loader, events>>

\* ... = vote: one member is copied; after the last one addVote returns.
addVote_copy(o) ==
    /\ ~aborted
    /\ Alive(o)
    /\ writing[o] # <<>>
    /\ LET w == writing[o]
           f == Fields[w.at + 1] IN
        /\ m_peers_votes' = [m_peers_votes EXCEPT ![o][w.host_id][f] = w.vote[f]]
        /\ IF w.at + 1 = Len(Fields)
           THEN /\ writing' = [writing EXCEPT ![o] = <<>>]
                /\ voted' = [voted EXCEPT ![o] = (w.host_id :> w.vote) @@ @]
                /\ op' = Call("addVote", o, [host_id |-> w.host_id, vote |-> w.vote], w.ret)
           ELSE /\ writing' = [writing EXCEPT ![o].at = @ + 1]
                /\ voted' = voted
                /\ op' = Call("copy", o, f, NULL)
    /\ UNCHANGED <<registry, reading, now, timer, loader, events>>

\* getVote(host_id) and getNumberOfVotes(): the tick context keeps the pointer.
getVote_begin(o, host_id) ==
    /\ ~aborted
    /\ Alive(o)
    /\ reading[o] = <<>>
    /\ CanEnter(writing[o])
    /\ reading' = [reading EXCEPT ![o] =
           [host_id |-> host_id, found |-> getVote_value(o, host_id) # <<>>,
            count |-> getNumberOfVotes(o)]]
    /\ op' = Call("getVote", o, host_id, getVote_value(o, host_id))
    /\ UNCHANGED <<registry, m_peers_votes, voted, writing, now, timer, loader, events>>

\* The tick context reads the vote through the pointer.
getVote_deref(o) ==
    /\ ~aborted
    /\ Alive(o)
    /\ reading[o] # <<>>
    /\ reading' = [reading EXCEPT ![o] = <<>>]
    /\ op' = Call("read", o, reading[o].host_id,
                  [vote |-> IF reading[o].found
                            THEN <<m_peers_votes[o][reading[o].host_id]>> ELSE <<>>,
                   count |-> reading[o].count])
    /\ UNCHANGED <<registry, m_peers_votes, voted, writing, now, timer, loader, events>>

\* ------------------------------------------------------------------- timer
Tick ==
    /\ ~aborted
    /\ now < MaxTime
    /\ now' = now + 1
    /\ op' = Call("tick", NULL, NULL, NULL)
    /\ UNCHANGED <<registry, ledger, timer, loader, events>>

\* uint64_t(max_time * 1000): the fraction of a millisecond is dropped.
ToMs(max_time) == max_time \div FloatPerMs

\* ms / 1000.0f
ToSeconds(ms) == ms * FloatPerMs

MaxTimes == 0..MaxVotingFloat

startVotingPeriod(o, max_time) ==
    /\ ~aborted
    /\ Alive(o)
    /\ m_max_voting_time' = [m_max_voting_time EXCEPT ![o] = ToMs(max_time)]
    /\ m_end_voting_period' = [m_end_voting_period EXCEPT ![o] = now + ToMs(max_time)]
    /\ armed' = [armed EXCEPT ![o] = <<now, max_time>>]
    /\ arming' = arming
    /\ op' = Call("startVotingPeriod", o, max_time, NULL)
    /\ UNCHANGED <<registry, ledger, now, loader, events>>

\* startVotingPeriod(max_time) as the threads that poll the timer see it: the
\* store to m_end_voting_period and the store to m_max_voting_time are two
\* steps, in an order the header does not fix.
Stores == {"m_end_voting_period", "m_max_voting_time"}

store(o, field, max_time) ==
    IF field = "m_end_voting_period"
    THEN /\ m_end_voting_period' =
                [m_end_voting_period EXCEPT ![o] = now + ToMs(max_time)]
         /\ armed' = [armed EXCEPT ![o] = <<now, max_time>>]
         /\ UNCHANGED m_max_voting_time
    ELSE /\ m_max_voting_time' = [m_max_voting_time EXCEPT ![o] = ToMs(max_time)]
         /\ UNCHANGED <<m_end_voting_period, armed>>

startVotingPeriod_first(o, max_time, field) ==
    /\ ~aborted
    /\ Alive(o)
    /\ arming[o] = <<>>
    /\ store(o, field, max_time)
    /\ arming' = [arming EXCEPT ![o] =
           [max_time |-> max_time, next |-> CHOOSE f \in Stores : f # field]]
    /\ op' = Call("store", o, max_time, field)
    /\ UNCHANGED <<registry, ledger, now, loader, events>>

startVotingPeriod_second(o) ==
    /\ ~aborted
    /\ Alive(o)
    /\ arming[o] # <<>>
    /\ store(o, arming[o].next, arming[o].max_time)
    /\ arming' = [arming EXCEPT ![o] = <<>>]
    /\ op' = Call("startVotingPeriod", o, arming[o].max_time, NULL)
    /\ UNCHANGED <<registry, ledger, now, loader, events>>

\* deadline - now without the clamp: the time since the deadline once it has passed.
getRemainingVotingTime_unclamped(o) ==
    IF m_end_voting_period[o] > now
    THEN ToSeconds(m_end_voting_period[o] - now)
    ELSE ToSeconds(now - m_end_voting_period[o])

\* max(0, deadline - now), in seconds
getRemainingVotingTime(o) ==
    IF m_end_voting_period[o] > now
    THEN ToSeconds(m_end_voting_period[o] - now) ELSE 0

isVotingOver_strict(o) == now > m_end_voting_period[o]

\* true once now >= deadline
isVotingOver(o) == now >= m_end_voting_period[o]

getMaxVotingTime_raw(o) == m_max_voting_time[o]

getMaxVotingTime(o) == ToSeconds(m_max_voting_time[o])

\* A thread that polls the timer reads the remaining and the maximum time.
poll(o) ==
    /\ ~aborted
    /\ Alive(o)
    /\ op' = Call("poll", o, arming[o] # <<>>,
                  [remaining |-> getRemainingVotingTime(o), max |-> getMaxVotingTime(o)])
    /\ UNCHANGED <<registry, ledger, now, timer, loader, events>>

\* ------------------------------------------------------------------ loader
\* join() without waiting for the thread to end, as detach() does.
joinStartGameThread_detach(o) ==
    m_start_game_thread' = [m_start_game_thread EXCEPT ![o] = "none"]

\* joinable() is false for "none"; join() returns once the thread has ended.
joinStartGameThread(o) ==
    /\ m_start_game_thread[o] # "running"
    /\ m_start_game_thread' = [m_start_game_thread EXCEPT ![o] = "none"]

\* The record of a joinStartGameThread() call on o: the call before it and the
\* state of the thread handle it found.
JoinCall(o) ==
    Call("joinStartGameThread", o,
         [prev |-> op.name, prev_obj |-> op.obj, prev_ret |-> op.ret],
         m_start_game_thread[o])

\* joinStartGameThread() called on its own by the coordinator (error abort,
\* progression past the loading phase), outside loadWorld().
joinStartGameThread_call(o) ==
    /\ ~aborted
    /\ Alive(o)
    /\ pc[o] = "idle"
    /\ joinStartGameThread(o)
    /\ op' = JoinCall(o)
    /\ UNCHANGED <<registry, ledger, now, timer, running, pc, events>>

\* loadWorld() in three positions of its caller: entered, past the join of the
\* previous unit, and the new unit started.
loadWorld_enter(o) ==
    /\ ~aborted
    /\ Alive(o)
    /\ pc[o] = "idle"
    /\ pc' = [pc EXCEPT ![o] = "join"]
    /\ op' = Call("loadWorld", o, NULL, NULL)
    /\ UNCHANGED <<registry, ledger, now, timer, m_start_game_thread, running, events>>

loadWorld_join(o) ==
    /\ ~aborted
    /\ pc[o] = "join"
    /\ joinStartGameThread(o)
    /\ pc' = [pc EXCEPT ![o] = "spawn"]
    /\ op' = JoinCall(o)
    /\ UNCHANGED <<registry, ledger, now, timer, running, events>>

loadWorld_spawn(o) ==
    /\ ~aborted
    /\ pc[o] = "spawn"
    /\ m_start_game_thread' = [m_start_game_thread EXCEPT ![o] = "running"]
    /\ running' = [running EXCEPT ![o] = @ + 1]
    /\ pc' = [pc EXCEPT ![o] = "idle"]
    /\ op' = Call("spawn", o, NULL, NULL)
    /\ UNCHANGED <<registry, ledger, now, timer, events>>

\* A background unit runs to its end.  Units the handle no longer owns end first.
unit_finish(o) ==
    /\ ~aborted
    /\ running[o] > 0
    /\ running' = [running EXCEPT ![o] = @ - 1]
    /\ m_start_game_thread' = [m_start_game_thread EXCEPT ![o] =
           IF @ = "running" /\ running[o] = 1 THEN "done" ELSE @]
    /\ op' = Call("unit_finish", o, NULL, NULL)
    /\ UNCHANGED <<registry, ledger, now, timer, pc, events>>

\* ~LobbyProtocol() and the destruction of the members: joins the start-game
\* thread first.
Destroy(o) ==
    /\ joinStartGameThread(o)
    /\ status' = [status EXCEPT ![o] = "dead"]
    /\ m_peers_votes' = [m_peers_votes EXCEPT ![o] = EmptyMap]
    /\ voted' = [voted EXCEPT ![o] = EmptyMap]
    /\ writing' = [writing EXCEPT ![o] = <<>>]
    /\ reading' = [reading EXCEPT ![o] = <<>>]
    /\ m_end_voting_period' = [m_end_voting_period EXCEPT ![o] = 0]
    /\ m_max_voting_time' = [m_max_voting_time EXCEPT ![o] = 0]
    /\ armed' = [armed EXCEPT ![o] = <<>>]
    /\ arming' = [arming EXCEPT ![o] = <<>>]
    /\ phase' = [phase EXCEPT ![o] = "Idle"]
    /\ m_kart' = [m_kart EXCEPT ![o] = 0]
    /\ reported' = [reported EXCEPT ![o] = {}]

\* A shared_ptr owner lets go.  The last one runs the destructor, which is left
\* waiting in join() when the start-game thread is still running.  A call in
\* progress on the object holds an owner of its own.
drop(o) ==
    /\ use_count' = [use_count EXCEPT ![o] = @ - 1]
    /\ IF use_count[o] > 1
       THEN UNCHANGED <<status, ledger, timer, m_start_game_thread, events>>
       ELSE IF m_start_game_thread[o] = "running"
            THEN /\ status' = [status EXCEPT ![o] = "destroying"]
                 /\ UNCHANGED <<ledger, timer, m_start_game_thread, events>>
            ELSE Destroy(o)

\* The owners of o other than the lp of a get<T>() call in progress.
Owners(o) == use_count[o] - (IF getting # <<>> /\ getting.lp = o THEN 1 ELSE 0)

release(o) ==
    /\ ~aborted
    /\ Alive(o)
    /\ Owners(o) > 0
    /\ Owners(o) > 1 \/ (/\ pc[o] = "idle" /\ arming[o] = <<>>
                          /\ writing[o] = <<>> /\ reading[o] = <<>>)
    /\ drop(o)
    /\ op' = Call("release", o, NULL, NULL)
    /\ UNCHANGED <<m_lobby, type, aborted, getting, now, running, pc>>

\* get<T>() as a thread that runs beside the owners sees it: lock() is one
\* atomic step on the control block; the cast and the return follow it.
get_lock(T) ==
    /\ ~aborted
    /\ getting = <<>>
    /\ LET lp == lock IN
        /\ IF lp # NULL THEN use_count[lp] < MaxRefs ELSE TRUE
        /\ use_count' = IF lp # NULL
                        THEN [use_count EXCEPT ![lp] = @ + 1] ELSE use_count
        /\ getting' = [T |-> T, lp |-> lp,
                       saw |-> IF m_lobby = NULL THEN "none" ELSE status[m_lobby]]
        /\ op' = Call("lock", lp, T, lp)
    /\ UNCHANGED <<m_lobby, status, type, aborted, ledger, now, timer, loader, events>>

\* The cast and the return: a lp of another type is let go at the end of its
\* scope, which runs the destructor when it was the last owner.
get_return ==
    /\ ~aborted
    /\ getting # <<>>
    /\ LET lp == getting.lp
           new_type == dynamic_pointer_cast(getting.T, getting.lp) IN
        /\ IF lp # NULL /\ new_type = NULL
           THEN drop(lp)
           ELSE UNCHANGED <<use_count, status, ledger, timer, m_start_game_thread, events>>
        /\ op' = Call("get_return", new_type, getting, new_type)
    /\ getting' = <<>>
    /\ UNCHANGED <<m_lobby, type, aborted, now, running, pc>>

\* The destructor that was left waiting gets past the join.
LobbyProtocol_dtor(o) ==
    /\ ~aborted
    /\ status[o] = "destroying"
    /\ Destroy(o)
    /\ op' = Call("~LobbyProtocol", o, NULL, NULL)
    /\ UNCHANGED <<m_lobby, type, use_count, aborted, getting, now, running, pc>>

\* ------------------------------------------------------------------ events
\* Idle -> Connecting -> Selecting -> LoadingWorld -> Racing -> ResultDisplay
\*      -> Selecting | Idle
NextPhases(p) ==
    CASE p = "Idle"          -> {"Connecting"}
      [] p = "Connecting"    -> {"Selecting"}
      [] p = "Selecting"     -> {"LoadingWorld"}
      [] p = "LoadingWorld"  -> {"Racing"}
      [] p = "Racing"        -> {"ResultDisplay"}
      [] p = "ResultDisplay" -> {"Selecting", "Idle"}

advance(o) ==
    /\ ~aborted
    /\ Alive(o)
    /\ \E p \in NextPhases(phase[o]) : phase' = [phase EXCEPT ![o] = p]
    /\ op' = Call("advance", o, NULL, NULL)
    /\ UNCHANGED <<registry, ledger, now, timer, loader, m_kart, reported>>

isRacing_never(o) == FALSE

isRacing(o) == phase[o] = "Racing"

\* The states in which an event code may be processed.
Legal(o, event) ==
    CASE event = LE_KART_SELECTION -> ~isRacing(o)
      [] OTHER -> TRUE

Karts == 1..MaxKarts

notifyEvent(o, event, kart) ==
    /\ ~aborted
    /\ Alive(o)
    /\ IF Legal(o, event)
       THEN /\ m_kart' = [m_kart EXCEPT ![o] = kart]
            /\ reported' = reported
            /\ op' = Call("notifyEvent", o, [event |-> event, kart |-> kart], "applied")
       ELSE /\ m_kart' = m_kart
            /\ reported' = [reported EXCEPT ![o] = @ \cup {event}]
            /\ op' = Call("notifyEvent", o, [event |-> event, kart |-> kart], "violation")
    /\ UNCHANGED <<registry, ledger, now, timer, loader, phase>>

\* A round start that arms the timer and keeps the votes of the round before.
startVotingRound_keep(o, max_time) ==
    /\ ~aborted
    /\ Alive(o)
    /\ m_max_voting_time' = [m_max_voting_time EXCEPT ![o] = ToMs(max_time)]
    /\ m_end_voting_period' = [m_end_voting_period EXCEPT ![o] = now + ToMs(max_time)]
    /\ armed' = [armed EXCEPT ![o] = <<now, max_time>>]
    /\ arming' = arming
    /\ op' = Call("startVotingRound", o, max_time,
                  [dropped |-> 0, rearmed |-> armed[o] # <<>>])
    /\ UNCHANGED <<registry, ledger, now, loader, events>>

\* The coordinator begins a voting round: it clears the ledger and arms the
\* timer as startVotingPeriod(max_time) does.
startVotingRound(o, max_time) ==
    /\ ~aborted
    /\ Alive(o)
    /\ m_peers_votes' = [m_peers_votes EXCEPT ![o] = EmptyMap]
    /\ voted' = [voted EXCEPT ![o] = EmptyMap]
    /\ writing' = [writing EXCEPT ![o] = <<>>]
    /\ reading' = [reading EXCEPT ![o] = <<>>]
    /\ m_max_voting_time' = [m_max_voting_time EXCEPT ![o] = ToMs(max_time)]
    /\ m_end_voting_period' = [m_end_voting_period EXCEPT ![o] = now + ToMs(max_time)]
    /\ armed' = [armed EXCEPT ![o] = <<now, max_time>>]
    /\ arming' = arming
    /\ op' = Call("startVotingRound", o, max_time,
                  [dropped |-> getNumberOfVotes(o), rearmed |-> armed[o] # <<>>])
    /\ UNCHANGED <<registry, now, loader, events>>

\* The server-role coordinator refuses a connection request: the message is the
\* event code followed by the reason.
refuseConnection(o, reason) ==
    /\ ~aborted
    /\ Alive(o)
    /\ type[o] = "ServerLobby"
    /\ op' = Call("refuseConnection", o, <<LE_CONNECTION_REFUSED, reason>>, NULL)
    /\ UNCHANGED <<registry, ledger, now, timer, loader, events>>

\* ------------------------------------------------------------ specification
Lifecycle ==
    \/ \E T \in Types : create(T)
    \/ \E T \in Types : get(T)
    \/ \E o \in Objects : release(o)

Loading ==
    \/ \E o \in Objects : joinStartGameThread_call(o)
    \/ \E o \in Objects : loadWorld_enter(o)
    \/ \E o \in Objects : loadWorld_join(o)
    \/ \E o \in Objects : loadWorld_spawn(o)
    \/ \E o \in Objects : unit_finish(o)
    \/ \E o \in Objects : LobbyProtocol_dtor(o)

Voting ==
    \/ \E o \in Objects, i \in HostIds, v \in Votes : addVote(o, i, v)
    \/ \E o \in Objects, i \in QueryIds : getVote(o, i)

Timing ==
    \/ Tick
    \/ \E o \in Objects, t \in MaxTimes : startVotingPeriod(o, t)

Dispatch ==
    \/ \E o \in Objects : advance(o)
    \/ \E o \in Objects, k \in Karts : notifyEvent(o, LE_KART_SELECTION, k)
    \/ \E o \in Objects, r \in RejectReason : refuseConnection(o, r)

NextLedger == Lifecycle \/ Voting
NextTimer  == Lifecycle \/ Timing
NextLoader == Lifecycle \/ Loading
NextEvents == Lifecycle \/ Dispatch
NextVoteTimer ==
    \/ \E T \in Types : create(T)
    \/ \E o \in Objects : release(o)
    \/ \E o \in Objects, i \in HostIds, v \in Votes : addVote(o, i, v)
    \/ Timing
NextRound ==
    \/ \E T \in Types : create(T)
    \/ \E o \in Objects : release(o)
    \/ \E o \in Objects, i \in HostIds, v \in Votes : addVote(o, i, v)
    \/ Tick
    \/ \E o \in Objects, t \in MaxTimes : startVotingRound(o, t)
NextArming ==
    \/ \E T \in Types : create(T)
    \/ \E o \in Objects : release(o)
    \/ Tick
    \/ \E o \in Objects, t \in MaxTimes, f \in Stores : startVotingPeriod_first(o, t, f)
    \/ \E o \in Objects : startVotingPeriod_second(o)
    \/ \E o \in Objects : poll(o)
NextLookup ==
    \/ \E T \in Types : create(T)
    \/ \E o \in Objects : release(o)
    \/ \E T \in Types : get_lock(T)
    \/ get_return
    \/ Loading
NextSerial ==
    \/ \E T \in Types : create(T)
    \/ \E o \in Objects : release(o)
    \/ \E o \in Objects, i \in HostIds, v \in Votes : addVote_begin(o, i, v)
    \/ \E o \in Objects : addVote_copy(o)
    \/ \E o \in Objects, i \in QueryIds : getVote_begin(o, i)
    \/ \E o \in Objects : getVote_deref(o)
Next ==
    \/ Lifecycle \/ Voting \/ Timing \/ Loading \/ Dispatch
    \/ NextRound \/ NextArming \/ NextLookup \/ NextSerial

SpecLedger == Init /\ [][NextLedger]_vars
SpecTimer  == Init /\ [][NextTimer]_vars
SpecLoader == Init /\ [][NextLoader]_vars
SpecEvents == Init /\ [][NextEvents]_vars
SpecVoteTimer == Init /\ [][NextVoteTimer]_vars
SpecRound  == Init /\ [][NextRound]_vars
SpecArming == Init /\ [][NextArming]_vars
SpecLookup == Init /\ [][NextLookup]_vars
SpecSerial == Init /\ [][NextSerial]_vars
Spec       == Init /\ [][Next]_vars

\* -------------------------------------------------------------- properties
\* The votes of the last addVote calls, as getVote must report them.
Expected(o, i) == IF i \in DOMAIN voted[o] THEN <<voted[o][i]>> ELSE <<>>

\* C1: after any sequence of addVote calls, getVote(id) returns the vote passed
\* to the last addVote for that id (NULL when there was none), and an
\* addVote(id, v) leaves the stored vote of every other peer id unchanged.
C1_LastWriteWins ==
    /\ [](/\ \A o \in Objects : Alive(o) =>
                \A i \in QueryIds : getVote_value(o, i) = Expected(o, i)
          /\ op.name = "getVote" => op.ret = Expected(op.obj, op.arg))
    /\ [][\A o \in Objects, i \in HostIds :
             (op'.name = "addVote" /\ op'.obj = o /\ op'.arg.host_id = i) =>
                 /\ getVote_value(o, i)' = <<op'.arg.vote>>
                 /\ \A j \in QueryIds \ {i} : getVote_value(o, j)' = getVote_value(o, j)]_vars

\* A vote was overwritten while another peer's vote was stored.
C1_Witness ==
    /\ op.name = "addVote"
    /\ op.ret = "overwrite"
    /\ getVote_value(op.obj, op.arg.host_id) = <<op.arg.vote>>
    /\ \E j \in HostIds \ {op.arg.host_id} :
           /\ j \in DOMAIN m_peers_votes[op.obj]
           /\ m_peers_votes[op.obj][j] # op.arg.vote

\* C2: create<T>() while a coordinator created before is still alive fails the
\* assertion (the process is aborted), and the second coordinator is neither
\* constructed nor installed in m_lobby.
C2_SecondCreateAborts ==
    [][(op'.name = "create" /\ \E o \in Objects : Alive(o)) =>
           /\ aborted'
           /\ op'.ret = NULL
           /\ m_lobby' = m_lobby
           /\ status' = status
           /\ type' = type
           /\ use_count' = use_count]_vars

\* The second create was called and the first coordinator is still the one
\* m_lobby refers to.
C2_Witness ==
    /\ op.name = "create"
    /\ aborted
    /\ m_lobby # NULL
    /\ Alive(m_lobby)
    /\ Cardinality({o \in Objects : status[o] # "unborn"}) = 1

\* C3: get<T>() returns the active coordinator iff a coordinator is alive and
\* its type is T; before any create, after the destruction of the active
\* coordinator and when the live coordinator has the other type it returns
\* NULL, and it never aborts.
C3_GetMatchesLive ==
    /\ \A T \in Types :
          /\ get_value(T) # NULL <=> \E o \in Objects : Alive(o) /\ type[o] = T
          /\ get_value(T) # NULL => Alive(get_value(T)) /\ type[get_value(T)] = T
    /\ op.name = "get" =>
          /\ ~aborted
          /\ op.ret # NULL <=> \E o \in Objects : Alive(o) /\ type[o] = op.arg
          /\ op.ret # NULL => Alive(op.ret) /\ type[op.ret] = op.arg /\ m_lobby = op.ret
          /\ op.ret = get_value(op.arg)

\* get<T>() returned NULL while a coordinator of the other type is alive, after
\* an earlier coordinator was destroyed.
C3_Witness ==
    /\ op.name = "get"
    /\ op.ret = NULL
    /\ \E o \in Objects : Alive(o) /\ type[o] # op.arg
    /\ \E o \in Objects : status[o] = "dead"

\* C8: getVote(id) for an id without a stored vote returns NULL, and getVote
\* creates no entry: m_peers_votes and getNumberOfVotes() are the same before
\* and after the call, for voted and unvoted ids.
C8_GetVoteReadsOnly ==
    [][\A o \in Objects :
         (op'.name = "getVote" /\ op'.obj = o) =>
             /\ m_peers_votes' = m_peers_votes
             /\ getNumberOfVotes(o)' = getNumberOfVotes(o)
             /\ op'.arg \notin DOMAIN m_peers_votes[o] => op'.ret = <<>>
             /\ op'.arg \in DOMAIN m_peers_votes[o] => op'.ret = <<m_peers_votes[o][op'.arg]>>]_vars

\* getVote(3) returned NULL while other peers have voted.
C8_Witness ==
    /\ op.name = "getVote"
    /\ op.ret = <<>>
    /\ op.arg = 3
    /\ op.arg \notin DOMAIN m_peers_votes[op.obj]
    /\ getNumberOfVotes(op.obj) = 2

\* C9: m_peers_votes holds one vote per host id that voted, and
\* getNumberOfVotes() is the number of distinct host ids addVote was called
\* with, also for non-consecutive ids (1, 2, 5 give 3, and getVote(3) is NULL)
\* and when a peer votes more than once.
C9_CountIsDistinctVoters ==
    \A o \in Objects : Alive(o) =>
        /\ DOMAIN m_peers_votes[o] = DOMAIN voted[o]
        /\ getNumberOfVotes(o) = Cardinality(DOMAIN voted[o])
        /\ DOMAIN voted[o] = {1, 2, 5} =>
               getNumberOfVotes(o) = 3 /\ getVote_value(o, 3) = <<>>

\* The peers 1, 2 and 5 have voted, the last of them for the second time.
C9_Witness ==
    /\ op.name = "addVote"
    /\ op.ret = "overwrite"
    /\ DOMAIN voted[op.obj] = {1, 2, 5}
    /\ getNumberOfVotes(op.obj) = 3

Elapsed(o) == ToSeconds(now - armed[o][1])

Armed(o) == Alive(o) /\ armed[o] # <<>> /\ armed[o][2] > 0

\* Once isVotingOver() is true it stays true until startVotingPeriod is called.
VotingStaysOver ==
    \A o \in Objects :
        (/\ Armed(o)
         /\ isVotingOver(o)
         /\ ~(op'.name = "startVotingPeriod" /\ op'.obj = o)
         /\ Alive(o)') => isVotingOver(o)'

C6_OneLoadingUnit ==
    \A o \in Objects :
        /\ running[o] <= 1
        /\ pc[o] = "spawn" => running[o] = 0 /\ m_start_game_thread[o] = "none"

\* loadWorld() was called again and waits for the unit that is still running.
C6_Witness ==
    \E o \in Objects :
        /\ pc[o] = "join"
        /\ running[o] = 1
        /\ m_start_game_thread[o] = "running"

\* C7: a coordinator is never destroyed while its background unit runs: the
\* destructor waits in joinStartGameThread() and ends only after the join.
C7_JoinedBeforeDestroyed ==
    /\ [](\A o \in Objects :
            status[o] = "dead" => running[o] = 0 /\ m_start_game_thread[o] = "none")
    /\ [][\A o \in Objects :
            (status[o] # "dead" /\ status'[o] = "dead") =>
                running[o] = 0 /\ m_start_game_thread[o] # "running"]_vars

\* The last owner is gone and the destructor waits for the running unit.
C7_Witness ==
    \E o \in Objects :
        /\ status[o] = "destroying"
        /\ running[o] = 1
        /\ m_start_game_thread[o] = "running"

\* C10: an LE_KART_SELECTION event received in the Racing phase is reported as
\* a protocol violation and is not applied: the recorded kart selection and
\* the phase are unchanged.
C10_KartSelectionWhileRacing ==
    [][\A o \in Objects :
         (/\ op'.name = "notifyEvent"
          /\ op'.obj = o
          /\ op'.arg.event = LE_KART_SELECTION
          /\ phase[o] = "Racing") =>
             /\ op'.ret = "violation"
             /\ LE_KART_SELECTION \in reported'[o]
             /\ m_kart' = m_kart
             /\ phase' = phase]_vars

\* A kart selection other than the recorded one arrived while racing.
C10_Witness ==
    /\ op.name = "notifyEvent"
    /\ op.arg.event = LE_KART_SELECTION
    /\ phase[op.obj] = "Racing"
    /\ op.ret = "violation"
    /\ m_kart[op.obj] # 0
    /\ m_kart[op.obj] # op.arg.kart

\* C11: between two startVotingPeriod calls getRemainingVotingTime() does not
\* increase as time advances: a later call never returns more than an earlier
\* call of the same voting window.
C11_RemainingNonIncreasing ==
    [][\A o \in Objects :
         (/\ Alive(o)
          /\ Alive(o)'
          /\ ~(op'.name = "startVotingPeriod" /\ op'.obj = o)) =>
             getRemainingVotingTime(o)' <= getRemainingVotingTime(o)]_vars

\* The clock advanced past the deadline of an armed timer: the remaining time
\* went down to 0 and stays there.
C11_Witness ==
    \E o \in Objects :
        /\ Armed(o)
        /\ ToMs(armed[o][2]) > 0
        /\ op.name = "tick"
        /\ now > m_end_voting_period[o]
        /\ getRemainingVotingTime(o) = 0

\* C18: at every instant, also before the timer was ever armed, isVotingOver()
\* is true iff getRemainingVotingTime() is 0.
C18_OverIffNothingRemains ==
    \A o \in Objects :
        Alive(o) => (isVotingOver(o) <=> getRemainingVotingTime(o) = 0)

\* A coordinator whose timer was never armed, after the clock has advanced.
C18_Witness ==
    \E o \in Objects :
        /\ Alive(o)
        /\ armed[o] = <<>>
        /\ op.name = "tick"
        /\ isVotingOver(o)
        /\ getRemainingVotingTime(o) = 0

\* C19: once the active coordinator is destroyed (its last owner released it)
\* create<T>() succeeds again without aborting, and get<T>() then returns the
\* new coordinator, never a destroyed one, for every order of types.
C19_CreateAfterDestroy ==
    /\ [](\A T \in Types :
            get_value(T) # NULL => status[get_value(T)] = "alive")
    /\ [][(op'.name = "create" /\ ~\E o \in Objects : Alive(o)) =>
             /\ ~aborted'
             /\ op'.ret # NULL
             /\ status[op'.ret] = "unborn"
             /\ status'[op'.ret] = "alive"
             /\ m_lobby' = op'.ret
             /\ \A T \in Types :
                   get_value(T)' = IF T = op'.arg THEN op'.ret ELSE NULL]_vars

\* A second coordinator, of the other type, was created after the first was
\* destroyed.
C19_Witness ==
    /\ op.name = "create"
    /\ op.ret # NULL
    /\ get_value(op.arg) = op.ret
    /\ \E p \in Objects : status[p] = "dead" /\ type[p] # op.arg

\* C12: addVote never changes the voting timer: it leaves m_end_voting_period
\* and m_max_voting_time as they are, so once the armed time has elapsed
\* isVotingOver() is true whatever votes were or are added, from which ids.
C12_VotesLeaveTimer ==
    /\ [](\A o \in Objects :
            (Armed(o) /\ Elapsed(o) >= armed[o][2]) => isVotingOver(o))
    /\ [][op'.name = "addVote" =>
             /\ m_end_voting_period' = m_end_voting_period
             /\ m_max_voting_time' = m_max_voting_time
             /\ \A o \in Objects :
                   /\ isVotingOver(o)' = isVotingOver(o)
                   /\ getRemainingVotingTime(o)' = getRemainingVotingTime(o)
                   /\ getMaxVotingTime(o)' = getMaxVotingTime(o)]_vars

\* A peer that had not voted votes after the armed time has elapsed, and two
\* other peers voted before: voting is still over.
C12_Witness ==
    /\ op.name = "addVote"
    /\ op.ret = "insert"
    /\ Armed(op.obj)
    /\ ToMs(armed[op.obj][2]) > 0
    /\ Elapsed(op.obj) >= armed[op.obj][2]
    /\ isVotingOver(op.obj)
    /\ getNumberOfVotes(op.obj) = 3

\* C20: joinStartGameThread() changes nothing when no background unit is
\* outstanding (never started, or already joined); with a unit outstanding it
\* returns only after the unit has finished; after it returns no unit is
\* outstanding, so a second call right after the first is a no-op.
C20_JoinIsScoped ==
    [][\A o \in Objects :
         /\ (m_start_game_thread[o] # "none" /\ m_start_game_thread'[o] = "none") =>
                m_start_game_thread[o] = "done" /\ running[o] = 0
         /\ (op'.name = "joinStartGameThread" /\ op'.obj = o) =>
                /\ m_start_game_thread[o] # "running"
                /\ running[o] = 0
                /\ running' = running
                /\ m_start_game_thread'[o] = "none"
                /\ m_start_game_thread[o] = "none" =>
                      UNCHANGED <<registry, ledger, now, timer,
                                  m_start_game_thread, running, events>>]_vars

\* The second of two calls in a row: the first joined a unit that had
\* finished, the second finds nothing outstanding.
C20_Witness ==
    /\ op.name = "joinStartGameThread"
    /\ op.arg.prev = "joinStartGameThread"
    /\ op.arg.prev_obj = op.obj
    /\ op.arg.prev_ret = "done"
    /\ op.ret = "none"
    /\ m_start_game_thread[op.obj] = "none"
    /\ pc[op.obj] = "idle"

\* C13: every LE_CONNECTION_REFUSED message carries exactly one reason code,
\* and the code is one of the six enumerated reasons: busy, banned, incorrect
\* password, incompatible data, too many players, invalid player.
C13_RefusalHasOneReason ==
    op.name = "refuseConnection" =>
        /\ Len(op.arg) = 2
        /\ op.arg[1] = LE_CONNECTION_REFUSED
        /\ \/ op.arg[2] = RR_BUSY
           \/ op.arg[2] = RR_BANNED
           \/ op.arg[2] = RR_INCORRECT_PASSWORD
           \/ op.arg[2] = RR_INCOMPATIBLE_DATA
           \/ op.arg[2] = RR_TOO_MANY_PLAYERS
           \/ op.arg[2] = RR_INVALID_PLAYER
        /\ Cardinality({RR_BUSY, RR_BANNED, RR_INCORRECT_PASSWORD,
                        RR_INCOMPATIBLE_DATA, RR_TOO_MANY_PLAYERS,
                        RR_INVALID_PLAYER}) = 6

\* The server refuses a player as invalid while a race is on.
C13_Witness ==
    /\ op.name = "refuseConnection"
    /\ op.arg = <<LE_CONNECTION_REFUSED, RR_INVALID_PLAYER>>
    /\ type[op.obj] = "ServerLobby"
    /\ phase[op.obj] = "Racing"

C17_PollsSeeConsistentTimer ==
    op.name = "poll" => op.ret.remaining <= op.ret.max

\* The same for polls outside a startVotingPeriod call: these are consistent.
PollsOutsideArming ==
    (op.name = "poll" /\ ~op.arg) => op.ret.remaining <= op.ret.max

\* C14: a get<T>() that runs beside the destruction of the active coordinator
\* returns a live coordinator of type T that stays alive while the caller
\* holds the result, or NULL: never one whose destruction has begun.
C14_GetRacesDestruction ==
    /\ \A o \in Objects : use_count[o] > 0 => Alive(o)
    /\ (getting # <<>> /\ getting.lp # NULL) =>
          Alive(getting.lp) /\ use_count[getting.lp] > 0
    /\ (op.name = "get_return" /\ op.ret # NULL) =>
          /\ Alive(op.ret)
          /\ use_count[op.ret] > 0
          /\ type[op.ret] = op.arg.T
          /\ op.ret = m_lobby

\* lock() ran while the destructor of the coordinator waited for its
\* start-game thread, and get<T>() of the coordinator's type returned NULL.
C14_Witness ==
    /\ op.name = "get_return"
    /\ op.ret = NULL
    /\ op.arg.saw = "destroying"
    /\ m_lobby # NULL
    /\ type[m_lobby] = op.arg.T

\* The votes of o once the addVote in progress, if any, has returned.
After(o) ==
    IF writing[o] = <<>> THEN voted[o]
    ELSE (writing[o].host_id :> writing[o].vote) @@ voted[o]

\* What a reader of id i sees of a ledger whose votes are L.
Seen(L, i) ==
    [vote |-> IF i \in DOMAIN L THEN <<L[i]>> ELSE <<>>, count |-> Cardinality(DOMAIN L)]

====
